---- MODULE Spec2Model ----
(***************************************************************************)
(* WealthFlow: the transaction ledger (accounts, transactions) and the     *)
(* stock price sync of src/App.tsx, over the two backends the component    *)
(* supports: demo mode (React state only, db = null) and persisted mode    *)
(* (Firestore documents, pushed back to React state by onSnapshot).        *)
(*                                                                         *)
(* A handler of the component closes over the state of the render in which *)
(* it was created: a call reads `accounts`, `transactions`, `stocks` and   *)
(* `newTx` as they were when the button was pressed, also after an await.  *)
(* In demo mode a handler has no await in its ledger branch and is one     *)
(* step; in persisted mode every awaited store write is a step of its own. *)
(***************************************************************************)
EXTENDS Integers, Sequences, FiniteSets, TLC

\* ------------------------------------------------------------------ bounds
\* handleSaveTransaction and deleteTransaction calls in one run
MaxCalls == 2

\* ------------------------------------------------------------- ledger data
AccountIds == {"1", "2"}

\* the value of the account <select> before an account is chosen
NoAccount == ""

INITIAL_ACCOUNTS == [a \in AccountIds |-> 5000]

INITIAL_TRANSACTIONS ==
    { [id |-> 0, accountId |-> "1", amount |-> 1000, type |-> "Income",
       category |-> "Salary"] }

TransactionTypes == {"Income", "Expense"}

\* what the amount <input type="number"> can hold
Amounts == {-1000, 0, 1000}

\* what the category <select> can hold ("" is its placeholder option)
CategoryInputs == {"", "Food"}

VARIABLES
    isDemoMode,          \* db is null
    accounts,            \* React state: account id -> balance
    transactions,        \* React state: set of transaction records
    newTxAccountId,      \* React state: newTx.accountId of the form
    dbAccounts,          \* Firestore collection "accounts": doc id -> balance
    dbTransactions,      \* Firestore collection "transactions"
    pendingAccounts,     \* an onSnapshot notification of "accounts" is due
    pendingTransactions, \* an onSnapshot notification of "transactions" is due
    calls,               \* persisted-mode handler calls awaiting their updateDoc
                         \* (kind, tx, the balance read, and as history
                         \* wasStored: the document was there at deleteDoc)
    nextTxId,            \* the next fresh transaction id
    nCalls,              \* handler calls made so far
    overlapped           \* history: some call started while another was in flight

ledgerVars ==
    << isDemoMode, accounts, transactions, newTxAccountId, dbAccounts,
       dbTransactions, pendingAccounts, pendingTransactions, calls, nextTxId,
       nCalls, overlapped >>

VARIABLES
    stocks,              \* React state: list of holdings
    dbStocks,            \* Firestore collection "stocks": doc id -> holding
    pendingStocks,       \* an onSnapshot notification of "stocks" is due
    updatingStocks,      \* React state: the in-progress flag of the sync
    stockSources,        \* React state: citations of the last sync
    syncs,               \* handleUpdateStocks calls between two awaits
    nSyncs,              \* handleUpdateStocks calls made so far
    alerts,              \* alert() dialogs shown by handleUpdateStocks
    lastSync,            \* history: how the sync that ended last went
    removed              \* history: symbols whose deleteStock has completed

syncVars ==
    << stocks, dbStocks, pendingStocks, updatingStocks, stockSources, syncs,
       nSyncs, alerts, lastSync, removed >>

\* the parse inside fetchCurrentStockPrices
VARIABLES
    text,                \* response.text || "", as a sequence of tokens
    jsonMatch,           \* the result of the two fence patterns
    parseResult,         \* `prices`
    parsePc,             \* where fetchCurrentStockPrices stands
    groundingChunks,     \* the groundingChunks of the response
    groundingSources     \* `sources`

parseVars ==
    << text, jsonMatch, parseResult, parsePc, groundingChunks, groundingSources >>

vars == << ledgerVars, syncVars, parseVars >>

\* ---------------------------------------------------------- pure functions

\* a collection with no document
EmptyMap == [x \in {} |-> 0]

\* the signed effect of a transaction on its account's balance
Signed(type, amount) == IF type = "Income" THEN amount ELSE -amount

\* the guard of handleSaveTransaction: three truthiness tests
FormValid(amount, accountId, category) ==
    amount # 0 /\ accountId # NoAccount /\ category # ""

\* accounts.find(a => a.id === id) over an id -> balance map
FindAccount(accts, id) ==
    IF id \in DOMAIN accts
    THEN [found |-> TRUE, balance |-> accts[id]]
    ELSE [found |-> FALSE, balance |-> 0]

\* the balance handleSaveTransaction writes: from the balance the call read
AppliedBalance(readBalance, type, amount) == readBalance + Signed(type, amount)

\* the balance deleteTransaction writes: from the balance the call read
RevertedBalance(readBalance, type, amount) == readBalance - Signed(type, amount)

\* list.filter(x => x.id !== id)
WithoutId(txs, id) == {t \in txs : t.id # id}

\* a map without one key (accounts.filter / deleteDoc)
WithoutKey(f, k) == [x \in DOMAIN f \ {k} |-> f[x]]

RECURSIVE SumSigned(_)
SumSigned(txs) ==
    IF txs = {} THEN 0
    ELSE LET t == CHOOSE x \in txs : TRUE
         IN Signed(t.type, t.amount) + SumSigned(txs \ {t})

\* -------------------------------------------------------------- sync data

\* handleUpdateStocks calls in one run
MaxSyncs == 2

\* the longest array of quotes a response holds
MaxQuotes == 2

\* a symbol is the sequence of its characters
AAPL == << "A", "A", "P", "L" >>
NVDA == << "N", "V", "D", "A" >>
aapl == << "a", "a", "p", "l" >>
AAPLX == << "A", "A", "P", "L", "X" >>
AAP == << "A", "A", "P" >>

INITIAL_STOCKS ==
    << [symbol |-> AAPL, name |-> "Apple Inc.", quantity |-> 10,
        averageCost |-> 150, currentPrice |-> 220, lastUpdated |-> 0],
       [symbol |-> NVDA, name |-> "NVIDIA", quantity |-> 5,
        averageCost |-> 400, currentPrice |-> 900, lastUpdated |-> 0] >>

\* the documents of "stocks", each under its symbol as document id
INITIAL_DB_STOCKS ==
    [d \in {INITIAL_STOCKS[i].symbol : i \in DOMAIN INITIAL_STOCKS} |->
        LET i == CHOOSE k \in DOMAIN INITIAL_STOCKS : INITIAL_STOCKS[k].symbol = d
        IN INITIAL_STOCKS[i]]

\* a symbol typed into the Stock Symbol prompt
TSM == << "T", "S", "M" >>

\* the document id addDoc gives to a holding
AutoId == << "a", "u", "t", "o" >>

\* the order in which a snapshot lists the documents of "stocks"
StockDocOrder == << AAPL, NVDA, AutoId >>

\* what the service can answer: the elements of a parsed array. An element
\* is an object whose symbol is a string or is absent; each element has a
\* price of its own, so that a holding's new price tells which one matched.
QuoteEntries ==
    { [hasSymbol |-> TRUE, symbol |-> AAPL, price |-> 225],
      [hasSymbol |-> TRUE, symbol |-> aapl, price |-> 226],
      [hasSymbol |-> TRUE, symbol |-> AAPLX, price |-> 990],
      [hasSymbol |-> TRUE, symbol |-> AAP, price |-> 224],
      [hasSymbol |-> TRUE, symbol |-> NVDA, price |-> 905],
      [hasSymbol |-> FALSE, symbol |-> << >>, price |-> 1] }

\* the sequences of at most n elements of S, each element at most once: an
\* element has one price, so a second copy of it changes no find
RECURSIVE SeqsUpTo(_, _)
SeqsUpTo(S, n) ==
    IF n = 0 THEN {<< >>}
    ELSE LET shorter == SeqsUpTo(S, n - 1)
         IN shorter \cup
            UNION { {Append(q, x) : x \in S \ {q[i] : i \in DOMAIN q}} :
                    q \in {r \in shorter : Len(r) = n - 1} }

\* the value of `prices` after the parse: an array of elements, or a JSON
\* value that is no array (null, an object, a string)
ParsedPrices ==
    [kind : {"array"}, items : SeqsUpTo(QuoteEntries, MaxQuotes)]
    \cup [kind : {"null", "object", "string"}, items : {<< >>}]

\* `let prices = []`
NoPrices == [kind |-> "array", items |-> << >>]

\* the grounding chunks of a response: web.title and web.uri, "" when absent
Citations ==
    { << >>, << [title |-> "T", uri |-> "U"] >>, << [title |-> "T", uri |-> ""] >> }

\* the grounding chunks a response can carry: each with the title and the
\* uri of its `web` entry, "" when the field (or `web`) is absent
MaxChunks == 3

GroundingChunks ==
    { [title |-> "T1", uri |-> "U1"], [title |-> "T2", uri |-> "U2"],
      [title |-> "T1", uri |-> ""], [title |-> "", uri |-> "U1"],
      [title |-> "", uri |-> ""] }

GroundingChunkLists ==
    UNION {[1..n -> GroundingChunks] : n \in 0..MaxChunks}

\* ------------------------------------------------ sync: pure functions

\* String.prototype.toLowerCase over the characters in use
LowerChar(ch) ==
    CASE ch = "A" -> "a"
      [] ch = "P" -> "p"
      [] ch = "L" -> "l"
      [] ch = "X" -> "x"
      [] ch = "N" -> "n"
      [] ch = "V" -> "v"
      [] ch = "D" -> "d"
      [] OTHER -> ch

toLowerCase(sym) == [i \in 1..Len(sym) |-> LowerChar(sym[i])]

\* String.prototype.includes
includes(hay, needle) ==
    \E i \in 0..(Len(hay) - Len(needle)) :
        SubSeq(hay, i + 1, i + Len(needle)) = needle

\* a forEach that asks for the uri only
GroundingSourcesWithUri(chunks) ==
    LET kept == SelectSeq(chunks, LAMBDA c : c.uri # "")
    IN [i \in 1..Len(kept) |-> [title |-> kept[i].title, url |-> kept[i].uri]]

\* chunks.forEach(chunk => { if (chunk.web?.uri && chunk.web?.title) push })
GroundingSources(chunks) ==
    LET kept == SelectSeq(chunks, LAMBDA c : c.uri # "" /\ c.title # "")
    IN [i \in 1..Len(kept) |-> [title |-> kept[i].title, url |-> kept[i].uri]]

\* fetchCurrentStockPrices with a catch block that logs the error and
\* returns an empty result instead of rethrowing it
FetchCurrentStockPricesSwallowing(symbols, serviceOk, parsed, chunks) ==
    IF Len(symbols) = 0 \/ ~serviceOk
    THEN [thrown |-> FALSE, prices |-> NoPrices, sources |-> << >>]
    ELSE [thrown |-> FALSE, prices |-> parsed, sources |-> GroundingSources(chunks)]

\* fetchCurrentStockPrices: no symbol, no call; a failed call is rethrown;
\* otherwise the parsed prices and the sources
FetchCurrentStockPrices(symbols, serviceOk, parsed, chunks) ==
    IF Len(symbols) = 0
    THEN [thrown |-> FALSE, prices |-> NoPrices, sources |-> << >>]
    ELSE IF ~serviceOk
    THEN [thrown |-> TRUE, prices |-> NoPrices, sources |-> << >>]
    ELSE [thrown |-> FALSE, prices |-> parsed, sources |-> GroundingSources(chunks)]

\* `prices.length > 0`: throws on null, is false on a value with no length
PricesLength(prices) ==
    CASE prices.kind = "array" -> [thrown |-> FALSE, positive |-> Len(prices.items) > 0]
      [] prices.kind = "string" -> [thrown |-> FALSE, positive |-> TRUE]
      [] prices.kind = "object" -> [thrown |-> FALSE, positive |-> FALSE]
      [] OTHER -> [thrown |-> TRUE, positive |-> FALSE]

\* demo branch: prices.find(x => x.symbol === s.symbol), from element i on.
\* The result is the element found, none, or a TypeError (prices.find of a
\* value that is no array).
RECURSIVE FindDemoFrom(_, _, _)
FindDemoFrom(items, sym, i) ==
    IF i > Len(items) THEN [kind |-> "none", price |-> 0]
    ELSE IF items[i].hasSymbol /\ items[i].symbol = sym
    THEN [kind |-> "found", price |-> items[i].price]
    ELSE FindDemoFrom(items, sym, i + 1)

FindDemo(prices, sym) ==
    IF prices.kind # "array" THEN [kind |-> "throw", price |-> 0]
    ELSE FindDemoFrom(prices.items, sym, 1)

\* a find whose predicate holds of every element
FindPersistedAnyQuote(prices, sym) ==
    IF prices.kind # "array" THEN [kind |-> "throw", price |-> 0]
    ELSE IF Len(prices.items) = 0 THEN [kind |-> "none", price |-> 0]
    ELSE [kind |-> "found", price |-> prices.items[1].price]

\* persisted branch: prices.find(p => p.symbol.toLowerCase() ===
\* stock.symbol.toLowerCase() || p.symbol.includes(stock.symbol)), from
\* element i on; p.symbol.toLowerCase() of an absent symbol is a TypeError
RECURSIVE FindPersistedFrom(_, _, _)
FindPersistedFrom(items, sym, i) ==
    IF i > Len(items) THEN [kind |-> "none", price |-> 0]
    ELSE IF ~items[i].hasSymbol THEN [kind |-> "throw", price |-> 0]
    ELSE IF \/ toLowerCase(items[i].symbol) = toLowerCase(sym)
            \/ includes(items[i].symbol, sym)
    THEN [kind |-> "found", price |-> items[i].price]
    ELSE FindPersistedFrom(items, sym, i + 1)

FindPersisted(prices, sym) ==
    IF prices.kind # "array" THEN [kind |-> "throw", price |-> 0]
    ELSE FindPersistedFrom(prices.items, sym, 1)

\* demo branch: stocks.map(s => p ? {...s, currentPrice, lastUpdated} : s);
\* thrown when a find throws
DemoNewStocks(held, prices, now) ==
    IF \E i \in DOMAIN held : FindDemo(prices, held[i].symbol).kind = "throw"
    THEN [thrown |-> TRUE, stocks |-> held]
    ELSE [thrown |-> FALSE,
          stocks |->
            [i \in DOMAIN held |->
               LET p == FindDemo(prices, held[i].symbol)
               IN IF p.kind = "found"
                  THEN [held[i] EXCEPT !.currentPrice = p.price,
                                       !.lastUpdated = now]
                  ELSE held[i]]]

\* persisted branch: the for loop from holding i on, up to its next await:
\* the updateDoc of the first holding with a match ("write"), the end of the
\* loop ("end"), or a TypeError thrown by a find ("throw")
RECURSIVE NextUpdate(_, _, _)
NextUpdate(held, prices, i) ==
    IF i > Len(held) THEN [kind |-> "end", idx |-> 0, price |-> 0]
    ELSE LET p == FindPersisted(prices, held[i].symbol)
         IN CASE p.kind = "throw" -> [kind |-> "throw", idx |-> i, price |-> 0]
              [] p.kind = "found" -> [kind |-> "write", idx |-> i, price |-> p.price]
              [] OTHER -> NextUpdate(held, prices, i + 1)

\* persisted branch: what the for loop does from holding i on. A find reads
\* only the prices and the symbols of the call's render, so the loop's
\* course is fixed once the prices are in: the updateDoc calls it awaits,
\* in order, and whether a find ends it with a TypeError.
RECURSIVE UpdatePlan(_, _, _)
UpdatePlan(held, prices, i) ==
    LET u == NextUpdate(held, prices, i)
    IN IF u.kind = "write"
       THEN << [symbol |-> held[u.idx].symbol, price |-> u.price] >>
            \o UpdatePlan(held, prices, u.idx + 1)
       ELSE << >>

RECURSIVE LoopThrows(_, _, _)
LoopThrows(held, prices, i) ==
    LET u == NextUpdate(held, prices, i)
    IN CASE u.kind = "throw" -> TRUE
         [] u.kind = "end" -> FALSE
         [] OTHER -> LoopThrows(held, prices, u.idx + 1)

\* snapshot.docs.map(doc => ({ symbol: doc.id, ...doc.data() }))
SnapshotStocks(db) ==
    LET ids == SelectSeq(StockDocOrder, LAMBDA d : d \in DOMAIN db)
    IN [i \in 1..Len(ids) |-> db[ids[i]]]

\* lastSync while no call has ended since the last one started
NoSync ==
    [id |-> 0, lookup |-> "none", alerted |-> FALSE, written |-> {},
     prices |-> NoPrices]

\* the Update Prices button without its disabled attribute
UpdateButtonAlwaysEnabled == TRUE

\* the Update Prices button: disabled={updatingStocks}
UpdateButtonEnabled == ~updatingStocks

\* ------------------------------------------------------ response text

\* the segments a response text is made of
MaxSegments == 2

\* A response text is a sequence of tokens; white space between tokens is
\* left out, since both fence patterns and JSON.parse skip it. Fence is the
\* run of three backquotes that opens or closes a fenced block.
Fence == "FENCE"
Label == "json"
QuoteX == "{symbol:X,price:1}"
QuoteY == "{symbol:Y}"

\* the object a token of the text stands for, as JSON.parse returns it
ObjectOf(tok) ==
    IF tok = QuoteX
    THEN [kind |-> "object", hasSymbol |-> TRUE, symbol |-> "X",
          hasPrice |-> TRUE, price |-> 1]
    ELSE [kind |-> "object", hasSymbol |-> TRUE, symbol |-> "Y",
          hasPrice |-> FALSE, price |-> 0]

\* what a fenced block holds, or what stands bare in the text
Contents ==
    { << >>,
      << "[", QuoteX, "]" >>,
      << "[", QuoteX, ",", QuoteY, "]" >>,
      << "[", QuoteX >>,
      << "null" >>,
      << QuoteX >>,
      << "x" >> }

Segments ==
    {<< Fence, Label >> \o c \o << Fence >> : c \in Contents}
    \cup {<< Fence >> \o c \o << Fence >> : c \in Contents}
    \cup (Contents \ {<< >>})
    \cup {<< Fence >>, << Label >>, << "[" >>, << "]" >>}

RECURSIVE TextsUpTo(_)
TextsUpTo(n) ==
    IF n = 0 THEN {<< >>}
    ELSE LET shorter == TextsUpTo(n - 1)
         IN shorter \cup {t \o g : t \in shorter, g \in Segments}

ResponseTexts == TextsUpTo(MaxSegments)

\* ----------------------------------------------- parse: pure functions

\* JSON.parse of the tokens from position i on: a value and the position
\* after it, or a SyntaxError (ok is FALSE)
SyntaxError == [ok |-> FALSE, next |-> 0, val |-> [kind |-> "null"]]

RECURSIVE ParseValueAt(_, _)
RECURSIVE ParseElementsAt(_, _, _)
ParseValueAt(toks, i) ==
    IF i > Len(toks) THEN SyntaxError
    ELSE CASE toks[i] = "null" ->
                [ok |-> TRUE, next |-> i + 1, val |-> [kind |-> "null"]]
           [] toks[i] \in {QuoteX, QuoteY} ->
                [ok |-> TRUE, next |-> i + 1, val |-> ObjectOf(toks[i])]
           [] toks[i] = "[" ->
                IF i + 1 <= Len(toks) /\ toks[i + 1] = "]"
                THEN [ok |-> TRUE, next |-> i + 2,
                      val |-> [kind |-> "array", items |-> << >>]]
                ELSE ParseElementsAt(toks, i + 1, << >>)
           [] OTHER -> SyntaxError

ParseElementsAt(toks, i, acc) ==
    LET v == ParseValueAt(toks, i)
    IN IF ~v.ok \/ v.next > Len(toks) THEN SyntaxError
       ELSE LET items == Append(acc, v.val)
            IN CASE toks[v.next] = "," -> ParseElementsAt(toks, v.next + 1, items)
                 [] toks[v.next] = "]" ->
                      [ok |-> TRUE, next |-> v.next + 1,
                       val |-> [kind |-> "array", items |-> items]]
                 [] OTHER -> SyntaxError

\* JSON.parse(toks): the value, or a SyntaxError when the tokens are no
\* single JSON value
JSONParse(toks) ==
    LET v == ParseValueAt(toks, 1)
    IN IF v.ok /\ v.next = Len(toks) + 1 THEN v ELSE SyntaxError

\* the positions of a token in the text
IndicesOf(txt, tok) == {i \in DOMAIN txt : txt[i] = tok}

Min(S) == CHOOSE x \in S : \A y \in S : x <= y
Max(S) == CHOOSE x \in S : \A y \in S : x >= y

NoMatch == [found |-> FALSE, capture |-> << >>]

\* the labeled pattern with a greedy capture: up to the last fence
LabeledMatchGreedy(txt) ==
    LET opens == {i \in IndicesOf(txt, Fence) :
                     /\ i + 1 <= Len(txt)
                     /\ txt[i + 1] = Label
                     /\ \E j \in IndicesOf(txt, Fence) : j > i + 1}
    IN IF opens = {} THEN NoMatch
       ELSE LET i == Min(opens)
                j == Max(IndicesOf(txt, Fence))
            IN [found |-> TRUE, capture |-> SubSeq(txt, i + 2, j - 1)]

\* text.match(/FENCEjson\s*([\s\S]*?)\s*FENCE/): the leftmost fence with
\* the label json that a fence follows, and what stands between the label
\* and the nearest such fence
LabeledMatch(txt) ==
    LET opens == {i \in IndicesOf(txt, Fence) :
                     /\ i + 1 <= Len(txt)
                     /\ txt[i + 1] = Label
                     /\ \E j \in IndicesOf(txt, Fence) : j > i + 1}
    IN IF opens = {} THEN NoMatch
       ELSE LET i == Min(opens)
                j == Min({k \in IndicesOf(txt, Fence) : k > i + 1})
            IN [found |-> TRUE, capture |-> SubSeq(txt, i + 2, j - 1)]

\* text.match(/FENCE\s*([\s\S]*?)\s*FENCE/): the leftmost fence that a
\* fence follows, and what stands between the two
UnlabeledMatch(txt) ==
    LET opens == {i \in IndicesOf(txt, Fence) :
                     \E j \in IndicesOf(txt, Fence) : j > i}
    IN IF opens = {} THEN NoMatch
       ELSE LET i == Min(opens)
                j == Min({k \in IndicesOf(txt, Fence) : k > i})
            IN [found |-> TRUE, capture |-> SubSeq(txt, i + 1, j - 1)]

\* labeled pattern || unlabeled pattern
FenceMatch(txt) ==
    IF LabeledMatch(txt).found THEN LabeledMatch(txt) ELSE UnlabeledMatch(txt)

\* the whole text in place of the substring
BracketSubstringWholeText(txt) == txt

\* text.substring(start, end + 1) for start = text.indexOf('[') and end =
\* text.lastIndexOf(']'), both found; substring swaps its arguments when
\* the first is the larger. Positions are counted from 1 here.
BracketSubstring(txt) ==
    LET start == Min(IndicesOf(txt, "["))
        end == Max(IndicesOf(txt, "]"))
        lo == IF start - 1 <= end THEN start - 1 ELSE end
        hi == IF start - 1 <= end THEN end ELSE start - 1
    IN SubSeq(txt, lo + 1, hi)

\* if (jsonMatch && jsonMatch[1]): an empty capture is falsy
FenceBranch(m) == m.found /\ m.capture # << >>

\* the fence branch: prices = JSON.parse(jsonMatch[1]), or prices stays []
\* when the parse throws
ParseFenced(m) ==
    LET v == JSONParse(m.capture)
    IN IF v.ok THEN v.val ELSE NoPrices

\* the else branch: with a '[' and a ']' in the text, prices = JSON.parse of
\* the substring, or prices stays [] when the parse throws
ParseBracketed(txt) ==
    IF IndicesOf(txt, "[") = {} \/ IndicesOf(txt, "]") = {} THEN NoPrices
    ELSE LET v == JSONParse(BracketSubstring(txt))
         IN IF v.ok THEN v.val ELSE NoPrices

\* ------------------------------------------------------------------- Init

AppInit ==
    /\ isDemoMode \in BOOLEAN
    /\ accounts = IF isDemoMode THEN INITIAL_ACCOUNTS ELSE EmptyMap
    /\ transactions = IF isDemoMode THEN INITIAL_TRANSACTIONS ELSE {}
    /\ newTxAccountId = NoAccount
    /\ dbAccounts = IF isDemoMode THEN EmptyMap ELSE INITIAL_ACCOUNTS
    /\ dbTransactions = IF isDemoMode THEN {} ELSE INITIAL_TRANSACTIONS
    /\ pendingAccounts = ~isDemoMode
    /\ pendingTransactions = ~isDemoMode
    /\ calls = {}
    /\ nextTxId = 1
    /\ nCalls = 0
    /\ overlapped = FALSE
    /\ stocks = IF isDemoMode THEN INITIAL_STOCKS ELSE << >>
    /\ dbStocks = IF isDemoMode THEN EmptyMap ELSE INITIAL_DB_STOCKS
    /\ pendingStocks = ~isDemoMode
    /\ updatingStocks = FALSE
    /\ stockSources = << >>
    /\ syncs = {}
    /\ nSyncs = 0
    /\ removed = {}
    /\ alerts = 0
    /\ lastSync = NoSync

\* no response is being parsed
ParseIdle ==
    /\ text = << >>
    /\ jsonMatch = NoMatch
    /\ parseResult = NoPrices
    /\ parsePc = "idle"
    /\ groundingChunks = << >>
    /\ groundingSources = << >>

Init == AppInit /\ ParseIdle

\* ---------------------------------------------------- store notifications

\* onSnapshot(collection(db, "accounts")): setAccounts(current collection)
NotifyAccounts ==
    /\ ~isDemoMode
    /\ pendingAccounts
    /\ accounts' = dbAccounts
    /\ pendingAccounts' = FALSE
    /\ UNCHANGED << isDemoMode, transactions, newTxAccountId, dbAccounts,
                    dbTransactions, pendingTransactions, calls, nextTxId,
                    nCalls, overlapped >>
    /\ UNCHANGED << syncVars, parseVars >>

\* a subscription callback that adds the documents of the snapshot to the
\* list it has instead of replacing the list
NotifyTransactionsMerging ==
    /\ ~isDemoMode
    /\ pendingTransactions
    /\ transactions' = transactions \cup dbTransactions
    /\ pendingTransactions' = FALSE
    /\ UNCHANGED << isDemoMode, accounts, newTxAccountId, dbAccounts,
                    dbTransactions, pendingAccounts, calls, nextTxId,
                    nCalls, overlapped >>
    /\ UNCHANGED << syncVars, parseVars >>

\* onSnapshot(qTransactions): setTransactions(current collection)
NotifyTransactions ==
    /\ ~isDemoMode
    /\ pendingTransactions
    /\ transactions' = dbTransactions
    /\ pendingTransactions' = FALSE
    /\ UNCHANGED << isDemoMode, accounts, newTxAccountId, dbAccounts,
                    dbTransactions, pendingAccounts, calls, nextTxId,
                    nCalls, overlapped >>
    /\ UNCHANGED << syncVars, parseVars >>

\* ------------------------------------------------------------- form input

\* the account <select> of the transaction form: one option per account of
\* the current render, plus the placeholder
SelectAccount(a) ==
    /\ a \in DOMAIN accounts
    /\ a # newTxAccountId
    /\ newTxAccountId' = a
    /\ UNCHANGED << isDemoMode, accounts, transactions, dbAccounts,
                    dbTransactions, pendingAccounts, pendingTransactions,
                    calls, nextTxId, nCalls, overlapped >>
    /\ UNCHANGED << syncVars, parseVars >>

\* --------------------------------------------------------- deleteAccount

DeleteAccount(id) ==
    /\ id \in DOMAIN accounts
    /\ IF isDemoMode
       THEN /\ accounts' = WithoutKey(accounts, id)
            /\ UNCHANGED << dbAccounts, pendingAccounts >>
       ELSE /\ dbAccounts' = WithoutKey(dbAccounts, id)
            /\ pendingAccounts' = (pendingAccounts \/ id \in DOMAIN dbAccounts)
            /\ UNCHANGED accounts
    /\ UNCHANGED << isDemoMode, transactions, newTxAccountId, dbTransactions,
                    pendingTransactions, calls, nextTxId, nCalls, overlapped >>
    /\ UNCHANGED << syncVars, parseVars >>

\* ------------------------------------------- handleSaveTransaction (apply)

\* the record handleSaveTransaction builds from the form
NewTransaction(id, accountId, amount, type, category) ==
    [id |-> id, accountId |-> accountId, amount |-> amount, type |-> type,
     category |-> category]

\* a demo branch that adds the delta to every account instead of the one at
\* accIndex
SaveTransactionDemoEveryAccount(amount, type, category) ==
    /\ isDemoMode
    /\ FormValid(amount, newTxAccountId, category)
    /\ nCalls < MaxCalls
    /\ LET tx == NewTransaction(nextTxId, newTxAccountId, amount, type, category)
           acct == FindAccount(accounts, newTxAccountId)
       IN /\ transactions' = transactions \cup {tx}
          /\ accounts' =
                IF acct.found
                THEN [a \in DOMAIN accounts |->
                         AppliedBalance(accounts[a], type, amount)]
                ELSE accounts
    /\ newTxAccountId' = NoAccount
    /\ nextTxId' = nextTxId + 1
    /\ nCalls' = nCalls + 1
    /\ UNCHANGED << isDemoMode, dbAccounts, dbTransactions, pendingAccounts,
                    pendingTransactions, calls, overlapped >>
    /\ UNCHANGED << syncVars, parseVars >>

\* demo branch: no await, one step
SaveTransactionDemo(amount, type, category) ==
    /\ isDemoMode
    /\ FormValid(amount, newTxAccountId, category)
    /\ nCalls < MaxCalls
    /\ LET tx == NewTransaction(nextTxId, newTxAccountId, amount, type, category)
           acct == FindAccount(accounts, newTxAccountId)
       IN /\ transactions' = transactions \cup {tx}
          /\ accounts' =
                IF acct.found
                THEN [accounts EXCEPT ![tx.accountId] =
                         AppliedBalance(@, type, amount)]
                ELSE accounts
    /\ newTxAccountId' = NoAccount
    /\ nextTxId' = nextTxId + 1
    /\ nCalls' = nCalls + 1
    /\ UNCHANGED << isDemoMode, dbAccounts, dbTransactions, pendingAccounts,
                    pendingTransactions, calls, overlapped >>
    /\ UNCHANGED << syncVars, parseVars >>

\* persisted branch, first half: the call reads the form and the accounts
\* of its render and issues addDoc(collection(db, "transactions"), ...).
\* The document is in the collection from here on: addDoc commutes with
\* every other write of the model, so the step at which the store takes it
\* is the step at which it is issued. The call then awaits; it goes on to
\* updateDoc when its render had the account, and ends otherwise.
SaveTransactionStart(amount, type, category) ==
    /\ ~isDemoMode
    /\ FormValid(amount, newTxAccountId, category)
    /\ nCalls < MaxCalls
    /\ LET tx == NewTransaction(nextTxId, newTxAccountId, amount, type, category)
           acct == FindAccount(accounts, newTxAccountId)
       IN /\ dbTransactions' = dbTransactions \cup {tx}
          /\ IF acct.found
             THEN /\ calls' = calls \cup
                       {[kind |-> "apply", tx |-> tx, balance |-> acct.balance,
                         wasStored |-> FALSE]}
                  /\ UNCHANGED newTxAccountId
             ELSE /\ calls' = calls
                  /\ newTxAccountId' = NoAccount
    /\ pendingTransactions' = TRUE
    /\ nextTxId' = nextTxId + 1
    /\ nCalls' = nCalls + 1
    /\ overlapped' = (overlapped \/ calls # {})
    /\ UNCHANGED << isDemoMode, accounts, transactions, dbAccounts,
                    pendingAccounts >>
    /\ UNCHANGED << syncVars, parseVars >>

\* SaveTransactionUpdateDoc with the balance computed by the store from its
\* current value (an increment) instead of from the call's render
SaveTransactionUpdateDocIncrement(c) ==
    /\ c \in calls
    /\ c.kind = "apply"
    /\ calls' = calls \ {c}
    /\ IF c.tx.accountId \in DOMAIN dbAccounts
       THEN /\ dbAccounts' =
                 [dbAccounts EXCEPT ![c.tx.accountId] =
                     AppliedBalance(@, c.tx.type, c.tx.amount)]
            /\ newTxAccountId' = NoAccount
       ELSE UNCHANGED << dbAccounts, newTxAccountId >>
    /\ pendingAccounts' = (pendingAccounts \/ dbAccounts' # dbAccounts)
    /\ UNCHANGED << isDemoMode, accounts, transactions, dbTransactions,
                    pendingTransactions, nextTxId, nCalls, overlapped >>
    /\ UNCHANGED << syncVars, parseVars >>

\* persisted branch, second half:
\* await updateDoc(doc(db, "accounts", account.id), { balance: newBalance })
\* takes effect, with newBalance computed from the account of the call's
\* render; updateDoc of a document that is gone rejects, and the handler
\* ends there without resetting the form
SaveTransactionUpdateDoc(c) ==
    /\ c \in calls
    /\ c.kind = "apply"
    /\ calls' = calls \ {c}
    /\ IF c.tx.accountId \in DOMAIN dbAccounts
       THEN /\ dbAccounts' =
                 [dbAccounts EXCEPT ![c.tx.accountId] =
                     AppliedBalance(c.balance, c.tx.type, c.tx.amount)]
            /\ newTxAccountId' = NoAccount
       ELSE UNCHANGED << dbAccounts, newTxAccountId >>
    /\ pendingAccounts' = (pendingAccounts \/ dbAccounts' # dbAccounts)
    /\ UNCHANGED << isDemoMode, accounts, transactions, dbTransactions,
                    pendingTransactions, nextTxId, nCalls, overlapped >>
    /\ UNCHANGED << syncVars, parseVars >>

\* a handler that deletes the record it added when the balance write rejects
SaveTransactionUpdateDocRolledBack(c) ==
    /\ c \in calls
    /\ c.kind = "apply"
    /\ calls' = calls \ {c}
    /\ dbTransactions' = WithoutId(dbTransactions, c.tx.id)
    /\ pendingTransactions' =
          (pendingTransactions \/ dbTransactions' # dbTransactions)
    /\ UNCHANGED << isDemoMode, accounts, transactions, newTxAccountId,
                    dbAccounts, pendingAccounts, nextTxId, nCalls, overlapped >>
    /\ UNCHANGED << syncVars, parseVars >>

\* persisted branch, second half, when the store rejects the write:
\* await updateDoc(...) throws out of the handler, which has no catch: no
\* write is undone and the form is not reset
SaveTransactionUpdateDocRejected(c) ==
    /\ c \in calls
    /\ c.kind = "apply"
    /\ calls' = calls \ {c}
    /\ UNCHANGED << isDemoMode, accounts, transactions, newTxAccountId,
                    dbAccounts, dbTransactions, pendingAccounts,
                    pendingTransactions, nextTxId, nCalls, overlapped >>
    /\ UNCHANGED << syncVars, parseVars >>

\* ----------------------------------------------- deleteTransaction (revert)

\* demo branch: no await, one step
DeleteTransactionDemo(t) ==
    /\ isDemoMode
    /\ t \in transactions
    /\ nCalls < MaxCalls
    /\ transactions' = WithoutId(transactions, t.id)
    /\ accounts' =
          IF FindAccount(accounts, t.accountId).found
          THEN [accounts EXCEPT ![t.accountId] =
                   RevertedBalance(@, t.type, t.amount)]
          ELSE accounts
    /\ nCalls' = nCalls + 1
    /\ UNCHANGED << isDemoMode, newTxAccountId, dbAccounts, dbTransactions,
                    pendingAccounts, pendingTransactions, calls, nextTxId,
                    overlapped >>
    /\ UNCHANGED << syncVars, parseVars >>

\* persisted branch, first half: t is a row of the call's render; the call
\* issues deleteDoc(doc(db, "transactions", t.id)), which succeeds also when
\* the document is gone already, and awaits. It goes on to updateDoc when
\* its render had the account, and ends otherwise.
DeleteTransactionStart(t) ==
    /\ ~isDemoMode
    /\ t \in transactions
    /\ nCalls < MaxCalls
    /\ dbTransactions' = WithoutId(dbTransactions, t.id)
    /\ pendingTransactions' =
          (pendingTransactions \/ dbTransactions' # dbTransactions)
    /\ LET acct == FindAccount(accounts, t.accountId)
       IN calls' = IF acct.found
                   THEN calls \cup
                          {[kind |-> "revert", tx |-> t, balance |-> acct.balance,
                            wasStored |-> t \in dbTransactions]}
                   ELSE calls
    /\ nCalls' = nCalls + 1
    /\ overlapped' = (overlapped \/ calls # {})
    /\ UNCHANGED << isDemoMode, accounts, transactions, newTxAccountId,
                    dbAccounts, pendingAccounts, nextTxId >>
    /\ UNCHANGED << syncVars, parseVars >>

\* persisted branch, second half:
\* await updateDoc(doc(db, "accounts", account.id), { balance: revertedBalance })
DeleteTransactionUpdateDoc(c) ==
    /\ c \in calls
    /\ c.kind = "revert"
    /\ calls' = calls \ {c}
    /\ dbAccounts' =
          IF c.tx.accountId \in DOMAIN dbAccounts
          THEN [dbAccounts EXCEPT ![c.tx.accountId] =
                   RevertedBalance(c.balance, c.tx.type, c.tx.amount)]
          ELSE dbAccounts
    /\ pendingAccounts' = (pendingAccounts \/ dbAccounts' # dbAccounts)
    /\ UNCHANGED << isDemoMode, accounts, transactions, newTxAccountId,
                    dbTransactions, pendingTransactions, nextTxId, nCalls,
                    overlapped >>
    /\ UNCHANGED << syncVars, parseVars >>

\* ---------------------------------------------------- handleUpdateStocks

\* onSnapshot(collection(db, "stocks")): setStocks(current collection)
NotifyStocks ==
    /\ ~isDemoMode
    /\ pendingStocks
    /\ stocks' = SnapshotStocks(dbStocks)
    /\ pendingStocks' = FALSE
    /\ UNCHANGED << dbStocks, updatingStocks, stockSources, syncs, nSyncs,
                    alerts, lastSync, removed >>
    /\ UNCHANGED << ledgerVars, parseVars >>

\* the call up to its first await: the flag, the sources, the symbols of the
\* holdings of its render, and the request
HandleUpdateStocksStart ==
    /\ UpdateButtonEnabled
    /\ nSyncs < MaxSyncs
    /\ updatingStocks' = TRUE
    /\ stockSources' = << >>
    /\ nSyncs' = nSyncs + 1
    /\ syncs' = syncs \cup
          { [id |-> nSyncs + 1, held |-> stocks, pc |-> "fetching",
             plan |-> << >>, throws |-> FALSE, sources |-> << >>,
             lookup |-> "none", written |-> {}, prices |-> NoPrices] }
    /\ lastSync' = NoSync
    /\ UNCHANGED << stocks, dbStocks, pendingStocks, alerts, removed >>
    /\ UNCHANGED << ledgerVars, parseVars >>

\* a call whose flag is cleared at the end of the try block instead of in a
\* finally block
SyncEndsWithoutFinally(c, lookup, alerted, written, sources, prices) ==
    /\ syncs' = syncs \ {c}
    /\ updatingStocks' = IF alerted THEN updatingStocks ELSE FALSE
    /\ alerts' = IF alerted THEN alerts + 1 ELSE alerts
    /\ stockSources' = IF alerted THEN stockSources ELSE sources
    /\ lastSync' = [id |-> c.id, lookup |-> lookup, alerted |-> alerted,
                    written |-> written, prices |-> prices]

\* how a call ends: the catch block alerts, the try block sets the sources;
\* finally clears the flag. lastSync keeps, of the call that ended last, how
\* its lookup went, the prices it was given and the documents it wrote.
SyncEnds(c, lookup, alerted, written, sources, prices) ==
    /\ syncs' = syncs \ {c}
    /\ updatingStocks' = FALSE
    /\ alerts' = IF alerted THEN alerts + 1 ELSE alerts
    /\ stockSources' = IF alerted THEN stockSources ELSE sources
    /\ lastSync' = [id |-> c.id, lookup |-> lookup, alerted |-> alerted,
                    written |-> written, prices |-> prices]

\* how a call goes on to await the first updateDoc of its plan
SyncAwaitsUpdate(c, lookup, plan, throws, sources, written, prices) ==
    /\ syncs' = (syncs \ {c}) \cup
          { [c EXCEPT !.pc = "writing", !.held = << >>, !.plan = plan,
                      !.throws = throws, !.sources = sources,
                      !.lookup = lookup, !.written = written,
                      !.prices = prices] }
    /\ UNCHANGED << updatingStocks, alerts, stockSources, lastSync >>

\* await fetchCurrentStockPrices(symbols) returns or throws, and the call runs
\* to its next await or to its end
HandleUpdateStocksFetched(c, serviceOk, parsed, chunks) ==
    /\ c \in syncs
    /\ c.pc = "fetching"
    /\ LET symbols == [i \in DOMAIN c.held |-> c.held[i].symbol]
           r == FetchCurrentStockPrices(symbols, serviceOk, parsed, chunks)
           lookup == IF Len(symbols) = 0 THEN "none"
                     ELSE IF serviceOk THEN "ok" ELSE "failed"
           len == PricesLength(r.prices)
       IN IF r.thrown \/ len.thrown
          THEN /\ SyncEnds(c, lookup, TRUE, {}, r.sources, r.prices)
               /\ UNCHANGED << stocks, dbStocks, pendingStocks >>
          ELSE IF ~len.positive
          THEN /\ SyncEnds(c, lookup, FALSE, {}, r.sources, r.prices)
               /\ UNCHANGED << stocks, dbStocks, pendingStocks >>
          ELSE IF isDemoMode
          THEN LET new == DemoNewStocks(c.held, r.prices, c.id)
               IN IF new.thrown
                  THEN /\ SyncEnds(c, lookup, TRUE, {}, r.sources, r.prices)
                       /\ UNCHANGED << stocks, dbStocks, pendingStocks >>
                  ELSE /\ stocks' = new.stocks
                       /\ SyncEnds(c, lookup, FALSE,
                             {c.held[i].symbol : i \in
                                 {k \in DOMAIN c.held :
                                     new.stocks[k] # c.held[k]}},
                             r.sources, r.prices)
                       /\ UNCHANGED << dbStocks, pendingStocks >>
          ELSE LET plan == UpdatePlan(c.held, r.prices, 1)
                   throws == LoopThrows(c.held, r.prices, 1)
               IN /\ IF plan = << >>
                     THEN SyncEnds(c, lookup, throws, {}, r.sources, r.prices)
                     ELSE SyncAwaitsUpdate(c, lookup, plan, throws, r.sources,
                                           {}, r.prices)
                  /\ UNCHANGED << stocks, dbStocks, pendingStocks >>
    /\ UNCHANGED << nSyncs, removed >>
    /\ UNCHANGED << ledgerVars, parseVars >>

\* the loop without its inner try block: a rejected updateDoc reaches the
\* catch block of the call, which alerts
HandleUpdateStocksUpdateDocUncaught(c, writeOk) ==
    /\ c \in syncs
    /\ c.pc = "writing"
    /\ LET target == Head(c.plan).symbol
           done == writeOk /\ target \in DOMAIN dbStocks
           written == IF done THEN c.written \cup {target} ELSE c.written
           rest == Tail(c.plan)
       IN /\ dbStocks' =
                IF done
                THEN [dbStocks EXCEPT ![target].currentPrice = Head(c.plan).price,
                                      ![target].lastUpdated = c.id]
                ELSE dbStocks
          /\ pendingStocks' = (pendingStocks \/ done)
          /\ IF ~done
             THEN SyncEnds(c, c.lookup, TRUE, written, c.sources, c.prices)
             ELSE IF rest = << >>
             THEN SyncEnds(c, c.lookup, c.throws, written, c.sources, c.prices)
             ELSE SyncAwaitsUpdate(c, c.lookup, rest, c.throws, c.sources,
                                   written, c.prices)
    /\ UNCHANGED << stocks, nSyncs, removed >>
    /\ UNCHANGED << ledgerVars, parseVars >>

\* await updateDoc(doc(db, "stocks", stock.symbol), {currentPrice, lastUpdated})
\* takes effect or rejects (the rejection is caught and logged), and the loop
\* runs to its next await or to its end
HandleUpdateStocksUpdateDoc(c, writeOk) ==
    /\ c \in syncs
    /\ c.pc = "writing"
    /\ LET target == Head(c.plan).symbol
           done == writeOk /\ target \in DOMAIN dbStocks
           written == IF done THEN c.written \cup {target} ELSE c.written
           rest == Tail(c.plan)
       IN /\ dbStocks' =
                IF done
                THEN [dbStocks EXCEPT ![target].currentPrice = Head(c.plan).price,
                                      ![target].lastUpdated = c.id]
                ELSE dbStocks
          /\ pendingStocks' = (pendingStocks \/ done)
          /\ IF rest = << >>
             THEN SyncEnds(c, c.lookup, c.throws, written, c.sources, c.prices)
             ELSE SyncAwaitsUpdate(c, c.lookup, rest, c.throws, c.sources,
                                   written, c.prices)
    /\ UNCHANGED << stocks, nSyncs, removed >>
    /\ UNCHANGED << ledgerVars, parseVars >>

\* addStock: the three prompts answered with a symbol, a quantity and a cost.
\* addDoc stores the holding under a document id of the store's choosing.
AddStock(symbol, qty, cost) ==
    /\ symbol # << >> /\ qty # 0 /\ cost # 0
    /\ LET h == [symbol |-> symbol, name |-> "added", quantity |-> qty,
                 averageCost |-> cost, currentPrice |-> cost, lastUpdated |-> 0]
       IN IF isDemoMode
          THEN /\ \A i \in DOMAIN stocks : stocks[i].symbol # symbol
               /\ stocks' = Append(stocks, h)
               /\ UNCHANGED << dbStocks, pendingStocks >>
          ELSE /\ AutoId \notin DOMAIN dbStocks
               /\ dbStocks' = [d \in DOMAIN dbStocks \cup {AutoId} |->
                                  IF d = AutoId THEN h ELSE dbStocks[d]]
               /\ pendingStocks' = TRUE
               /\ UNCHANGED stocks
    /\ removed' = removed \ {symbol}
    /\ UNCHANGED << updatingStocks, stockSources, syncs, nSyncs, alerts, lastSync >>
    /\ UNCHANGED << ledgerVars, parseVars >>

\* deleteStock(id), called with the symbol of a holding on display, once the
\* user has confirmed
DeleteStock(id) ==
    /\ \E i \in DOMAIN stocks : stocks[i].symbol = id
    /\ IF isDemoMode
       THEN /\ stocks' = SelectSeq(stocks, LAMBDA h : h.symbol # id)
            /\ UNCHANGED << dbStocks, pendingStocks >>
       ELSE /\ dbStocks' = WithoutKey(dbStocks, id)
            /\ pendingStocks' = (pendingStocks \/ id \in DOMAIN dbStocks)
            /\ UNCHANGED stocks
    /\ removed' = removed \cup {id}
    /\ UNCHANGED << updatingStocks, stockSources, syncs, nSyncs, alerts, lastSync >>
    /\ UNCHANGED << ledgerVars, parseVars >>

SyncNext ==
    \/ NotifyStocks
    \/ HandleUpdateStocksStart
    \/ \E c \in syncs :
          HandleUpdateStocksFetched(c, FALSE, NoPrices, << >>)
    \/ \E c \in syncs, parsed \in ParsedPrices, chunks \in Citations :
          HandleUpdateStocksFetched(c, TRUE, parsed, chunks)
    \/ \E c \in syncs, writeOk \in BOOLEAN : HandleUpdateStocksUpdateDoc(c, writeOk)

SyncSpec == Init /\ [][SyncNext]_vars

\* values of `prices`, one for each course a call can take after the
\* lookup: nothing to do, a TypeError on the length, no array, a find that
\* throws, one write, two writes
CoursePrices ==
    { NoPrices,
      [kind |-> "null", items |-> << >>],
      [kind |-> "string", items |-> << >>],
      [kind |-> "array",
       items |-> << [hasSymbol |-> FALSE, symbol |-> << >>, price |-> 1] >>],
      [kind |-> "array",
       items |-> << [hasSymbol |-> TRUE, symbol |-> AAPL, price |-> 225] >>],
      [kind |-> "array",
       items |-> << [hasSymbol |-> TRUE, symbol |-> AAPL, price |-> 225],
                    [hasSymbol |-> TRUE, symbol |-> NVDA, price |-> 905] >>] }

\* an awaited promise settles: the lookup returns or throws, a write takes
\* effect or rejects
SyncSettles ==
    \E c \in syncs :
        \/ HandleUpdateStocksFetched(c, FALSE, NoPrices, << >>)
        \/ \E parsed \in CoursePrices :
              HandleUpdateStocksFetched(c, TRUE, parsed, << >>)
        \/ \E writeOk \in BOOLEAN : HandleUpdateStocksUpdateDoc(c, writeOk)

SettlingNext ==
    \/ NotifyStocks
    \/ HandleUpdateStocksStart
    \/ SyncSettles

\* handleUpdateStocks with every awaited promise settling in the end
SyncFairSpec == Init /\ [][SettlingNext]_vars /\ WF_vars(SyncSettles)

\* price syncs while the user adds and removes holdings
HoldingsNext ==
    \/ SyncNext
    \/ AddStock(TSM, 1, 100)
    \/ \E id \in {AAPL, NVDA, TSM} : DeleteStock(id)

HoldingsSpec == Init /\ [][HoldingsNext]_vars

\* ------------------------------------------ fetchCurrentStockPrices: parse

\* const jsonMatch = text.match(labeled) || text.match(unlabeled);
\* let prices = []
ParseMatchFences ==
    /\ parsePc = "text"
    /\ jsonMatch' = FenceMatch(text)
    /\ parseResult' = NoPrices
    /\ parsePc' = "matched"
    /\ UNCHANGED << text, groundingChunks, groundingSources, ledgerVars, syncVars >>

\* if (jsonMatch && jsonMatch[1]) { try { prices = JSON.parse(...) } catch }
ParseFencedBlock ==
    /\ parsePc = "matched"
    /\ FenceBranch(jsonMatch)
    /\ parseResult' = ParseFenced(jsonMatch)
    /\ parsePc' = "returned"
    /\ UNCHANGED << text, jsonMatch, groundingChunks, groundingSources,
                    ledgerVars, syncVars >>

\* else { try { indexOf, lastIndexOf, JSON.parse(substring) } catch }
ParseBracketStage ==
    /\ parsePc = "matched"
    /\ ~FenceBranch(jsonMatch)
    /\ parseResult' = ParseBracketed(text)
    /\ parsePc' = "returned"
    /\ UNCHANGED << text, jsonMatch, groundingChunks, groundingSources,
                    ledgerVars, syncVars >>

ParseNext == ParseMatchFences \/ ParseFencedBlock \/ ParseBracketStage

\* a response text has arrived
ParseInit ==
    /\ AppInit
    /\ text \in ResponseTexts
    /\ jsonMatch = NoMatch
    /\ parseResult = NoPrices
    /\ parsePc = "text"
    /\ groundingChunks = << >>
    /\ groundingSources = << >>

ParseSpec == ParseInit /\ [][ParseNext]_vars

\* chunks.forEach(chunk => { if (chunk.web?.uri && chunk.web?.title)
\*     sources.push({ title, url }) })
CollectSources ==
    /\ parsePc = "response"
    /\ groundingSources' = GroundingSources(groundingChunks)
    /\ parsePc' = "sourced"
    /\ UNCHANGED << text, jsonMatch, parseResult, groundingChunks,
                    ledgerVars, syncVars >>

SourcesNext == CollectSources

\* a response has arrived
SourcesInit ==
    /\ AppInit
    /\ text = << >>
    /\ jsonMatch = NoMatch
    /\ parseResult = NoPrices
    /\ parsePc = "response"
    /\ groundingChunks \in GroundingChunkLists
    /\ groundingSources = << >>

SourcesSpec == SourcesInit /\ [][SourcesNext]_vars

\* ---------------------------------------------------------- specification

LedgerNext ==
    \/ NotifyAccounts
    \/ NotifyTransactions
    \/ \E a \in AccountIds : SelectAccount(a)
    \/ \E a \in AccountIds : DeleteAccount(a)
    \/ \E amount \in Amounts, type \in TransactionTypes, category \in CategoryInputs :
          \/ SaveTransactionDemo(amount, type, category)
          \/ SaveTransactionStart(amount, type, category)
    \/ \E c \in calls : SaveTransactionUpdateDoc(c)
    \/ \E t \in transactions : DeleteTransactionDemo(t)
    \/ \E t \in transactions : DeleteTransactionStart(t)
    \/ \E c \in calls : DeleteTransactionUpdateDoc(c)

LedgerSpec == Init /\ [][LedgerNext]_vars

\* handleSaveTransaction, with a form that holds a positive amount and a
\* category, against a store that can reject the balance write
RejectingNext ==
    \/ NotifyAccounts
    \/ NotifyTransactions
    \/ \E a \in AccountIds : SelectAccount(a)
    \/ \E a \in AccountIds : DeleteAccount(a)
    \/ \E amount \in {a \in Amounts : a > 0}, type \in TransactionTypes :
          SaveTransactionStart(amount, type, "Food")
    \/ \E c \in calls : SaveTransactionUpdateDoc(c)
    \/ \E c \in calls : SaveTransactionUpdateDocRejected(c)

RejectingSpec == Init /\ [][RejectingNext]_vars

\* the ledger handlers with forms that hold a positive amount and a category
PositiveNext ==
    \/ NotifyAccounts
    \/ NotifyTransactions
    \/ \E a \in AccountIds : SelectAccount(a)
    \/ \E a \in AccountIds : DeleteAccount(a)
    \/ \E amount \in {a \in Amounts : a > 0}, type \in TransactionTypes :
          \/ SaveTransactionDemo(amount, type, "Food")
          \/ SaveTransactionStart(amount, type, "Food")
    \/ \E c \in calls : SaveTransactionUpdateDoc(c)
    \/ \E t \in transactions : DeleteTransactionDemo(t)
    \/ \E t \in transactions : DeleteTransactionStart(t)
    \/ \E c \in calls : DeleteTransactionUpdateDoc(c)

PositiveSpec == Init /\ [][PositiveNext]_vars

\* the persisted store and its three subscriptions: every handler that
\* writes a collection, with one form input each
StoreNext ==
    \/ NotifyAccounts
    \/ NotifyTransactions
    \/ NotifyStocks
    \/ \E a \in AccountIds : SelectAccount(a)
    \/ \E a \in AccountIds : DeleteAccount(a)
    \/ SaveTransactionStart(1000, "Income", "Food")
    \/ \E c \in calls : SaveTransactionUpdateDoc(c)
    \/ \E t \in transactions : DeleteTransactionStart(t)
    \/ \E c \in calls : DeleteTransactionUpdateDoc(c)
    \/ AddStock(TSM, 1, 100)
    \/ DeleteStock(NVDA)

StoreSpec == Init /\ [][StoreNext]_vars

Next ==
    \/ LedgerNext \/ RejectingNext \/ PositiveNext \/ StoreNext
    \/ HoldingsNext \/ SettlingNext \/ ParseNext \/ SourcesNext

Spec == Init /\ [][Next]_vars

\* ================================================================ claims

\* what the ledger stores: React state in demo mode, the collections in
\* persisted mode
StoredAccounts == IF isDemoMode THEN accounts ELSE dbAccounts

StoredTransactions == IF isDemoMode THEN transactions ELSE dbTransactions

\* the balance an account had before any of its transactions
OpeningBalance(a) ==
    INITIAL_ACCOUNTS[a] - SumSigned({t \in INITIAL_TRANSACTIONS : t.accountId = a})

TransactionsOf(a) == {t \in StoredTransactions : t.accountId = a}

\* the holdings as stored: React state in demo mode, the collection in
\* persisted mode
StoredStocks == IF isDemoMode THEN stocks ELSE SnapshotStocks(dbStocks)

\* C1 (ledger integrity): once every call has completed, and no call ever
\* started while another was in flight, every existing account's stored
\* balance is its opening balance plus the signed sum of the transactions
\* that reference it.
C1_LedgerIntegrity ==
    (calls = {} /\ ~overlapped) =>
        \A a \in DOMAIN StoredAccounts :
            StoredAccounts[a] = OpeningBalance(a) + SumSigned(TransactionsOf(a))

\* C2 (round trip): when the only two calls of a run are the apply of a
\* valid transaction and then, after the apply has completed, its revert,
\* the revert leaves the account with the balance it had before the apply.
C2_RevertStep ==
    /\ \A c \in calls \ calls' :
          ( /\ c.kind = "revert"
            /\ c.tx.id = 1
            /\ c.tx.amount > 0
            /\ nCalls = 2
            /\ ~overlapped
            /\ c.tx.accountId \in DOMAIN dbAccounts )
          => dbAccounts'[c.tx.accountId] = INITIAL_ACCOUNTS[c.tx.accountId]
    /\ \A t \in transactions \ transactions' :
          ( /\ isDemoMode
            /\ t.id = 1
            /\ t.amount > 0
            /\ nCalls' = 2
            /\ t.accountId \in DOMAIN accounts )
          => accounts'[t.accountId] = INITIAL_ACCOUNTS[t.accountId]

C2_RoundTrip == [][C2_RevertStep]_vars

\* C3 (exact delta): the step in which an apply writes the balance changes
\* the stored balance of its account by exactly the signed amount, and the
\* step in which the revert of a stored transaction writes it by exactly
\* the opposite.
C3_StepDelta ==
    /\ \A c \in calls \ calls' :
          ( /\ ~overlapped
            /\ \A t \in StoredTransactions \cup {c.tx} : t.amount > 0
            /\ c.kind = "revert" => c.wasStored
            /\ c.tx.accountId \in DOMAIN dbAccounts )
          => dbAccounts'[c.tx.accountId] - dbAccounts[c.tx.accountId] =
                IF c.kind = "apply"
                THEN Signed(c.tx.type, c.tx.amount)
                ELSE -Signed(c.tx.type, c.tx.amount)
    /\ isDemoMode =>
          /\ \A t \in transactions' \ transactions :
                t.accountId \in DOMAIN accounts =>
                   accounts'[t.accountId] - accounts[t.accountId] =
                      Signed(t.type, t.amount)
          /\ \A t \in transactions \ transactions' :
                t.accountId \in DOMAIN accounts =>
                   accounts'[t.accountId] - accounts[t.accountId] =
                      -Signed(t.type, t.amount)

C3_ExactDelta == [][C3_StepDelta]_vars

\* C4 (non-positive amount rejected): no transaction with an amount that is
\* not strictly positive is ever recorded.
C4_NonPositiveAmountRejected ==
    \A t \in StoredTransactions \cup transactions : t.amount > 0

\* C5 (missing account rejected): a transaction record (of a positive
\* amount) is written only when its accountId resolves to an account
\* existing at that time.
C5_MissingAccountRejected ==
    [][\A t \in StoredTransactions' \ StoredTransactions :
          t.amount > 0 => t.accountId \in DOMAIN StoredAccounts]_vars

\* C6 (revert of a transaction not applied): the inverse delta of a
\* transaction is applied at most once. While no apply has been made, the
\* only transaction of account "1" is the initial one, so the account's
\* balance never falls below its opening balance.
C6_InverseAppliedOnce ==
    (nextTxId = 1 /\ "1" \in DOMAIN StoredAccounts) =>
        StoredAccounts["1"] >= OpeningBalance("1")

\* C7 (lost update): the balance a call writes is the balance it read when
\* it started plus its own delta, whatever was written to the account since;
\* so of two overlapping calls on one account the later write replaces the
\* earlier one and the earlier delta is lost.
C7_WriteFromStaleRead ==
    [][\A c \in calls \ calls' :
          c.tx.accountId \in DOMAIN dbAccounts =>
             dbAccounts'[c.tx.accountId] =
                c.balance + (IF c.kind = "apply"
                             THEN Signed(c.tx.type, c.tx.amount)
                             ELSE -Signed(c.tx.type, c.tx.amount))]_vars

\* two applies on one account overlapped, both have completed, both records
\* are stored, and the stored balance lacks the delta of one of them
C7_LostUpdateReached ==
    /\ ~isDemoMode
    /\ overlapped
    /\ calls = {}
    /\ \E a \in DOMAIN dbAccounts :
          \E t \in TransactionsOf(a) :
             /\ t.id > 0
             /\ Cardinality(TransactionsOf(a) \ INITIAL_TRANSACTIONS) = 2
             /\ INITIAL_TRANSACTIONS \subseteq dbTransactions
             /\ dbAccounts[a] =
                   OpeningBalance(a) + SumSigned(TransactionsOf(a))
                      - Signed(t.type, t.amount)

\* C8 (in-flight guard): at most one handleUpdateStocks call is between its
\* start and its end.
C8_OneSyncInFlight == Cardinality(syncs) <= 1

\* a call is in flight, the button is disabled, and the model would allow
\* another call if the button did
C8_SecondRequestRefused ==
    /\ Cardinality(syncs) = 1
    /\ updatingStocks
    /\ nSyncs < MaxSyncs

\* C9 (failed lookup): the step in which a call ends on a failed lookup
\* alerts once and changes no holding, in React state or in the store.
C9_FailedLookupMutatesNothing ==
    [][\A c \in syncs \ syncs' :
          (c.pc = "fetching" /\ lastSync'.id = c.id /\ lastSync'.lookup = "failed")
          => /\ stocks' = stocks
             /\ dbStocks' = dbStocks
             /\ alerts' = alerts + 1]_vars

\* the second call ended on a failed lookup, after a first call that had
\* updated a holding
C9_FailedAfterUpdate ==
    /\ lastSync.id = 2
    /\ lastSync.lookup = "failed"
    /\ lastSync.alerted
    /\ \E i \in DOMAIN StoredStocks : StoredStocks[i].lastUpdated = 1

\* C10 (degradation): a call whose lookup succeeded never ends in the alert.
C10_NoAlertAfterLookup ==
    lastSync.lookup = "ok" => ~lastSync.alerted

\* --------------------------------------------------------------- parser

\* a JSON value that is an array
IsArray(v) == v.ok /\ v.val.kind = "array"

\* a quote: an object with a non-empty string symbol and a numeric price
IsQuote(e) ==
    /\ e.kind = "object"
    /\ e.hasSymbol /\ e.symbol # ""
    /\ e.hasPrice

\* a JSON value that is an array of quotes
IsQuoteArray(v) ==
    /\ IsArray(v)
    /\ \A i \in DOMAIN v.val.items : IsQuote(v.val.items[i])

\* one of the three stages yields an array: the fenced block with the json
\* label, the fenced block, or the text from the first '[' to the last ']'
SomeStageYieldsArray(txt) ==
    \/ /\ LabeledMatch(txt).found
       /\ IsArray(JSONParse(LabeledMatch(txt).capture))
    \/ /\ UnlabeledMatch(txt).found
       /\ IsArray(JSONParse(UnlabeledMatch(txt).capture))
    \/ /\ IndicesOf(txt, "[") # {} /\ IndicesOf(txt, "]") # {}
       /\ IsArray(JSONParse(BracketSubstring(txt)))

\* C11 (parse degrades to the empty list): when no stage yields a parseable
\* array, the prices returned are the empty list.
C11_NoArrayGivesEmptyList ==
    (parsePc = "returned" /\ ~SomeStageYieldsArray(text)) =>
        parseResult = NoPrices

\* C12 (fallthrough): when the fenced block fails to parse and the text
\* from the first '[' to the last ']' is an array, that array is returned.
C12_FenceFailureFallsThrough ==
    ( /\ parsePc = "returned"
      /\ FenceBranch(FenceMatch(text))
      /\ ~JSONParse(FenceMatch(text).capture).ok
      /\ IndicesOf(text, "[") # {} /\ IndicesOf(text, "]") # {}
      /\ IsArray(JSONParse(BracketSubstring(text))) )
    => parseResult = JSONParse(BracketSubstring(text)).val

\* C13 (entry validation): every element of a returned array is a quote.
C13_OnlyQuotesReturned ==
    (parsePc = "returned" /\ parseResult.kind = "array") =>
        \A i \in DOMAIN parseResult.items : IsQuote(parseResult.items[i])

\* the fences of the text that carry the json label
LabeledOpenings(txt) ==
    {i \in DOMAIN txt : txt[i] = Fence /\ i + 1 <= Len(txt) /\ txt[i + 1] = Label}

\* the text has one fenced block labeled json, and its contents are an
\* array of quotes
OneLabeledQuoteArray(txt) ==
    /\ Cardinality(LabeledOpenings(txt)) = 1
    /\ \E i \in LabeledOpenings(txt), j \in DOMAIN txt :
          /\ j > i + 1
          /\ txt[j] = Fence
          /\ \A k \in (i + 2)..(j - 1) : txt[k] # Fence
          /\ IsQuoteArray(JSONParse(SubSeq(txt, i + 2, j - 1)))

\* the contents of that block
LabeledContents(txt) ==
    LET i == CHOOSE k \in LabeledOpenings(txt) : TRUE
        j == Min({k \in DOMAIN txt : k > i + 1 /\ txt[k] = Fence})
    IN SubSeq(txt, i + 2, j - 1)

\* C14 (stage 1): a text with one fenced block labeled json whose contents
\* are an array of quotes yields exactly that array, whatever else the text
\* holds.
C14_LabeledFenceWins ==
    (parsePc = "returned" /\ OneLabeledQuoteArray(text)) =>
        parseResult = JSONParse(LabeledContents(text)).val

\* a labeled block with a quote was returned from a text that begins with
\* a fenced block without label
C14_LabeledAfterUnlabeled ==
    /\ parsePc = "returned"
    /\ OneLabeledQuoteArray(text)
    /\ Len(text) > 3
    /\ text[1] = Fence /\ text[2] = "x" /\ text[3] = Fence
    /\ Len(parseResult.items) > 0

\* the text has no fence, and from its first '[' to its last ']' it is an
\* array of quotes
BareQuoteArray(txt) ==
    /\ IndicesOf(txt, Fence) = {}
    /\ IndicesOf(txt, "[") # {} /\ IndicesOf(txt, "]") # {}
    /\ Min(IndicesOf(txt, "[")) < Max(IndicesOf(txt, "]"))
    /\ IsQuoteArray(JSONParse(SubSeq(txt, Min(IndicesOf(txt, "[")),
                                          Max(IndicesOf(txt, "]")))))

\* C15 (stage 3): a text without fence that holds an array of quotes between
\* its first '[' and its last ']' yields that array, whatever surrounds it.
C15_BracketStage ==
    (parsePc = "returned" /\ BareQuoteArray(text)) =>
        parseResult = JSONParse(SubSeq(text, Min(IndicesOf(text, "[")),
                                             Max(IndicesOf(text, "]")))).val

\* an array with a quote was returned from a text that begins with prose
C15_ArrayAfterProse ==
    /\ parsePc = "returned"
    /\ BareQuoteArray(text)
    /\ text[1] = "x"
    /\ Len(parseResult.items) > 0

\* -------------------------------------------------------------- matching

\* the first call has ended after a successful lookup that returned an
\* array whose elements all carry a symbol, no write of it was rejected by
\* the store, and no other call has started since. The call was made on the
\* initial holdings.
FirstSyncEnded ==
    /\ lastSync.id = 1
    /\ lastSync.lookup = "ok"
    /\ lastSync.prices.kind = "array"
    /\ \A i \in DOMAIN lastSync.prices.items : lastSync.prices.items[i].hasSymbol
    /\ isDemoMode \/
          lastSync.written =
             {u.symbol : u \in {UpdatePlan(INITIAL_STOCKS, lastSync.prices, 1)[k] :
                 k \in DOMAIN UpdatePlan(INITIAL_STOCKS, lastSync.prices, 1)}}

\* the quotes of that call
Quotes == lastSync.prices.items

\* the stored price of the holding with a symbol
StoredPrice(sym) ==
    LET i == CHOOSE k \in DOMAIN StoredStocks : StoredStocks[k].symbol = sym
    IN StoredStocks[i].currentPrice

\* the matching rules as the claims state them
EqualIgnoringCase(a, b) == toLowerCase(a) = toLowerCase(b)

ContainsEitherWay(a, b) ==
    \/ includes(toLowerCase(a), toLowerCase(b))
    \/ includes(toLowerCase(b), toLowerCase(a))

\* C16 (exact match ignores case): after a sync whose only quote equals a
\* holding's symbol up to letter case, the holding has the quote's price.
C16_ExactIgnoresCase ==
    (FirstSyncEnded /\ Len(Quotes) = 1) =>
        \A h \in DOMAIN INITIAL_STOCKS :
            EqualIgnoringCase(Quotes[1].symbol, INITIAL_STOCKS[h].symbol) =>
                StoredPrice(INITIAL_STOCKS[h].symbol) = Quotes[1].price

\* C17 (substring fallback): when no quote equals a holding's symbol up to
\* letter case, the holding takes the price of the first quote whose symbol
\* contains the holding's symbol or is contained in it, letter case ignored.
C17_SubstringEitherWay ==
    FirstSyncEnded =>
        \A h \in DOMAIN INITIAL_STOCKS :
            LET sym == INITIAL_STOCKS[h].symbol
                subs == {i \in DOMAIN Quotes : ContainsEitherWay(Quotes[i].symbol, sym)}
            IN ( /\ \A i \in DOMAIN Quotes : ~EqualIgnoringCase(Quotes[i].symbol, sym)
                 /\ subs # {} )
               => StoredPrice(sym) = Quotes[Min(subs)].price

\* C18 (strategy order): when a quote equals a holding's symbol and another
\* quote's symbol contains it, the holding takes the price of the equal
\* quote, whatever their order.
C18_ExactBeforeSubstring ==
    FirstSyncEnded =>
        \A h \in DOMAIN INITIAL_STOCKS :
            LET sym == INITIAL_STOCKS[h].symbol
                equal == {i \in DOMAIN Quotes : Quotes[i].symbol = sym}
            IN ( /\ equal # {}
                 /\ \E i \in DOMAIN Quotes :
                       Quotes[i].symbol # sym /\ includes(Quotes[i].symbol, sym) )
               => StoredPrice(sym) = Quotes[Min(equal)].price

\* C19 (no match): after a sync whose lookup succeeded with an array of
\* quotes none of which matches a holding by either rule, the holding is as
\* it was, no document of it was written, and the sync showed no alert.
C19_NoMatchNoChange ==
    ( /\ lastSync.id = 1
      /\ lastSync.lookup = "ok"
      /\ lastSync.prices.kind = "array"
      /\ \A i \in DOMAIN Quotes : Quotes[i].hasSymbol ) =>
        \A h \in DOMAIN INITIAL_STOCKS :
            LET sym == INITIAL_STOCKS[h].symbol
            IN (\A i \in DOMAIN Quotes : ~ContainsEitherWay(Quotes[i].symbol, sym))
               => /\ StoredStocks[h] = INITIAL_STOCKS[h]
                  /\ sym \notin lastSync.written
                  /\ ~lastSync.alerted

\* a sync with a quote for AAPL only has ended: AAPL has the quote's price,
\* NVDA is as it was
C19_OnlyOtherHoldingQuoted ==
    /\ lastSync.id = 1
    /\ lastSync.lookup = "ok"
    /\ Quotes = << [hasSymbol |-> TRUE, symbol |-> AAPL, price |-> 225] >>
    /\ StoredPrice(AAPL) = 225
    /\ StoredPrice(NVDA) = 900
    /\ ~lastSync.alerted

\* C20 (backend independence): once the notifications are delivered, the
\* holdings after a sync in persisted mode have the prices that the demo
\* branch gives the same holdings for the same quotes.
C20_SamePricesInBothBackends ==
    (~isDemoMode /\ FirstSyncEnded /\ ~pendingStocks) =>
        \A h \in DOMAIN INITIAL_STOCKS :
            stocks[h].currentPrice =
               DemoNewStocks(INITIAL_STOCKS, lastSync.prices, 1).stocks[h].currentPrice

\* ------------------------------------------------------- frames, policies

\* the stored holdings as a set, without the two fields a sync sets
HoldingsFrame(held) ==
    {[symbol |-> held[i].symbol, name |-> held[i].name,
      quantity |-> held[i].quantity, averageCost |-> held[i].averageCost] :
        i \in DOMAIN held}

\* C21 (sync frame): a step of handleUpdateStocks adds no holding, removes
\* none, and changes no symbol, name, quantity or averageCost.
C21_SyncFrame ==
    [][syncs' # syncs => HoldingsFrame(StoredStocks') = HoldingsFrame(StoredStocks)]_vars

\* the symbols of the holdings a read of the store returns
StoredSymbols == {StoredStocks[i].symbol : i \in DOMAIN StoredStocks}

\* C22 (store contract, delete): once deleteStock(id) has completed, and
\* until a holding of that symbol is added again, no read of the store
\* returns a holding with that symbol.
C22_DeletedStaysDeleted == removed \cap StoredSymbols = {}

\* C23 (reference policy of deleteAccount): a step that removes an account
\* leaves no stored transaction whose accountId is that account: the
\* deletion was refused, or the transactions went with it.
C23_NoDanglingAccountId ==
    [][\A a \in DOMAIN StoredAccounts \ DOMAIN StoredAccounts' :
          \A t \in StoredTransactions' : t.accountId # a]_vars

\* ------------------------------------------------------------- citations

\* the positions of the citations that carry both a title and a URL
Complete == {i \in DOMAIN groundingChunks :
                groundingChunks[i].title # "" /\ groundingChunks[i].uri # ""}

\* C24 (source list): the list returned has one entry per citation that
\* carries both a title and a URL, the k-th entry being the title and URL of
\* the k-th such citation of the response; citations missing either field
\* leave no entry.
C24_SourcesAreCompleteCitations ==
    parsePc = "sourced" =>
        /\ Len(groundingSources) = Cardinality(Complete)
        /\ \A i \in Complete :
              LET k == Cardinality({j \in Complete : j <= i})
              IN groundingSources[k] =
                    [title |-> groundingChunks[i].title, url |-> groundingChunks[i].uri]

\* two complete citations with an incomplete one between them
C24_IncompleteBetweenComplete ==
    /\ parsePc = "sourced"
    /\ Len(groundingChunks) = 3
    /\ groundingChunks[1] = [title |-> "T2", uri |-> "U2"]
    /\ groundingChunks[2] = [title |-> "", uri |-> "U1"]
    /\ groundingChunks[3] = [title |-> "T1", uri |-> "U1"]
    /\ Len(groundingSources) = 2

\* ------------------------------------------------------ order of the writes

\* C25 (revert: balance first, record second): when the first call made
\* removes a stored transaction of an account that exists and is on display,
\* the state it leaves has the balance without that transaction's effect: the balance is the
\* opening balance plus the signed sum of the transactions still stored.
C25_BalanceRevertedBeforeRecordGone ==
    [][nCalls = 0 =>
          \A t \in StoredTransactions \ StoredTransactions' :
              (t.accountId \in DOMAIN accounts /\ t.accountId \in DOMAIN StoredAccounts') =>
                  StoredAccounts'[t.accountId] =
                      OpeningBalance(t.accountId)
                          + SumSigned({u \in StoredTransactions' :
                                          u.accountId = t.accountId})]_vars

\* C26 (apply does not roll back): when the balance write of the first call
\* made, an apply of a positive amount to an existing account, is rejected,
\* the record written before it stays stored, and the stored balance of the
\* account differs from its opening balance plus the signed sum of its
\* stored transactions.
C26_NoRollback ==
    [][\A c \in calls \ calls' :
          (/\ c.kind = "apply" /\ c.tx.amount > 0
           /\ nCalls = 1
           /\ c.tx \in dbTransactions
           /\ c.tx.accountId \in DOMAIN dbAccounts
           /\ dbAccounts' = dbAccounts) =>
              /\ c.tx \in dbTransactions'
              /\ dbAccounts'[c.tx.accountId] #
                    OpeningBalance(c.tx.accountId)
                        + SumSigned({u \in dbTransactions' :
                                        u.accountId = c.tx.accountId})]_vars

\* the balance write of an apply was rejected: the call has ended, its
\* record is stored and the balance is the one from before the call
C26_RejectedWrite ==
    /\ ~isDemoMode /\ calls = {} /\ nCalls = 1
    /\ \E t \in dbTransactions :
          /\ t.id = 1 /\ t.amount > 0 /\ t.accountId = "2"
    /\ "2" \in DOMAIN dbAccounts /\ dbAccounts["2"] = INITIAL_ACCOUNTS["2"]

\* ------------------------------------------------------- rejected writes

\* the updateDoc calls of the sync that ended last, made on the initial
\* holdings: which document, which price
WritesTried == UpdatePlan(INITIAL_STOCKS, lastSync.prices, 1)

\* C27 (no batch atomicity): after a persisted sync whose lookup gave an
\* array of quotes that all carry a symbol, each matched holding whose write
\* took effect has its new price, each matched holding whose write was
\* rejected is as it was, whatever became of the other writes, and no alert
\* was shown.
C27_WritesStandAlone ==
    ( /\ ~isDemoMode
      /\ lastSync.id = 1
      /\ lastSync.lookup = "ok"
      /\ lastSync.prices.kind = "array"
      /\ \A i \in DOMAIN Quotes : Quotes[i].hasSymbol ) =>
        /\ alerts = 0
        /\ \A k \in DOMAIN WritesTried :
              LET sym == WritesTried[k].symbol
              IN IF sym \in lastSync.written
                 THEN /\ dbStocks[sym].currentPrice = WritesTried[k].price
                      /\ dbStocks[sym].lastUpdated = 1
                 ELSE dbStocks[sym] = INITIAL_DB_STOCKS[sym]

\* both holdings matched; the write of AAPL took effect, the write of NVDA
\* was rejected
C27_SecondWriteRejected ==
    /\ ~isDemoMode
    /\ lastSync.id = 1
    /\ lastSync.lookup = "ok"
    /\ Len(WritesTried) = 2
    /\ lastSync.written = {AAPL}
    /\ dbStocks[AAPL].currentPrice = 225
    /\ dbStocks[NVDA] = INITIAL_DB_STOCKS[NVDA]
    /\ ~lastSync.alerted

\* ------------------------------------------------------- ledger frame

\* the stored transactions a step adds or removes
TouchedTransactions ==
    (StoredTransactions' \ StoredTransactions)
        \cup (StoredTransactions \ StoredTransactions')

\* the accounts whose stored balance a step changes
TouchedBalances ==
    {a \in DOMAIN StoredAccounts \cap DOMAIN StoredAccounts' :
        StoredAccounts'[a] # StoredAccounts[a]}

\* C28 (ledger frame): a step adds or removes at most one stored transaction
\* and leaves every other one as it was, and a balance it changes is the
\* balance of the account of that transaction, or of the transaction of the
\* call that ends with the step.
C28_OtherAccountsUntouched ==
    [][/\ Cardinality(TouchedTransactions) <= 1
       /\ \A a \in TouchedBalances :
             \/ \E t \in TouchedTransactions : t.accountId = a
             \/ \E c \in calls \ calls' : c.tx.accountId = a]_vars

\* an apply to account 2 and a revert of the initial transaction on account 1
\* have both completed, and the transaction of the apply is stored
C28_ApplyAndRevertDone ==
    /\ calls = {} /\ nCalls = 2
    /\ \E t \in StoredTransactions : t.id = 1 /\ t.accountId = "2" /\ t.amount = 1000
    /\ \A t \in StoredTransactions : t.id # 0
    /\ StoredAccounts["1"] = INITIAL_ACCOUNTS["1"] - 1000
    /\ StoredAccounts["2"] # INITIAL_ACCOUNTS["2"]

\* ------------------------------------------------------- in-progress flag

\* C29 (in-progress flag): updatingStocks is true exactly while a call of
\* handleUpdateStocks is between its start and its end, and every call that
\* has started ends, however its lookup and its writes go, with the flag
\* cleared.
C29_FlagClearedInTheEnd ==
    /\ [](updatingStocks <=> syncs # {})
    /\ (syncs # {}) ~> (syncs = {} /\ ~updatingStocks)

\* a call has ended in the catch block, and the flag is cleared
C29_EndedInCatch ==
    /\ lastSync.id = 1
    /\ lastSync.alerted
    /\ syncs = {}
    /\ ~updatingStocks

\* ------------------------------------------------------------ convergence

\* C30 (convergence): in persisted mode, when no call is between two writes
\* and no notification is due, the accounts, the transactions and the
\* holdings held in React state are the collections of the store.
C30_LocalEqualsStore ==
    ( /\ ~isDemoMode
      /\ calls = {} /\ syncs = {}
      /\ ~pendingAccounts /\ ~pendingTransactions /\ ~pendingStocks ) =>
        /\ accounts = dbAccounts
        /\ transactions = dbTransactions
        /\ stocks = SnapshotStocks(dbStocks)

\* after writes to each collection, every notification has been delivered:
\* the added transaction, the reduced set of accounts and the added holding
\* are what the state holds
C30_DeliveredAfterWrites ==
    /\ ~isDemoMode
    /\ calls = {}
    /\ ~pendingAccounts /\ ~pendingTransactions /\ ~pendingStocks
    /\ \E t \in transactions : t.id = 1
    /\ DOMAIN accounts = {"1"}
    /\ Len(stocks) = 3

====
